---- MODULE Spec2Model ----
(***************************************************************************)
(* Watermark placement and compositing of pyimgtool                        *)
(* (src/pyimgtool/commands/watermark.py).                                  *)
(*                                                                         *)
(* An image stands for a numpy array of shape (height, width, channels),   *)
(* or for a PIL image of that size.  It is kept as a fill pixel and the    *)
(* pixels that differ from it: [width, height, fill, dots], dots a         *)
(* function from the points <<x, y>> that differ to their pixels, so that  *)
(* equal arrays are equal records.  A pixel is a tuple of 8-bit channel    *)
(* values, or one gray value.  A padding or opacity is a rational          *)
(* [num, den] whose float is exact for the values drawn here, so that      *)
(* int() of a float product is the truncation of the rational one.         *)
(***************************************************************************)
EXTENDS Integers, Sequences, FiniteSets

VARIABLES
    api,             \* the function that is called
    background,      \* the background array (mutated in place by the blend)
    bg0,             \* the background array as it was on entry
    bg_gray,         \* the grayscale copy of the background
    overlay,         \* the overlay array (after the optional resize)
    position,        \* argument position: a Position or "None"
    padding,         \* argument padding, a rational
    alpha,           \* argument alpha, a rational
    invert,          \* argument invert
    pc,              \* where the call stands
    pos,             \* find_best_position's Position ("None" when not run)
    coords,          \* the Box (x0, y0, x1, y1) selected
    stat,            \* the Stat of the selected region
    invert_overlay,  \* the automatic inversion decision
    overlay_image,   \* the overlay colours that enter the blend
    watermark_image, \* with_image: the watermark after the resize
    err,             \* the exception raised ("None" when none)
    cands,           \* find_best_location: the boxes whose stats were taken
    loc,             \* find_best_location: the Position returned
    ret,             \* the object returned ("None" before the return)
    text,            \* with_text: argument text, a sequence of characters
    rendered,        \* with_text: the text that is drawn
    copyright,       \* with_text: argument copyright
    exif,            \* with_text: argument exif
    scale,           \* with_text: argument scale, a rational
    font_found,      \* with_text: whether the font file can be opened
    font_size,       \* with_text: the font size
    text_fill,       \* with_text: the colour of the text ("None" before)
    argv,            \* the commands of the command line, in order
    ns_order,        \* OrderedNamespace._order
    verbose,         \* whether a top-level option (-v) is on the command line
    output_given,    \* save: whether OUTPUT_FILE is given
    out_file,        \* what the output path holds
    out_file0,       \* what the output path held before the program started
    force,           \* save: whether --force is given
    no_op,           \* pyimg.py: whether -n is given
    cfg,             \* calculate_new_size: pct_scale, width and height
    cfg0,            \* calculate_new_size: cfg as it was given
    orig_size,       \* calculate_new_size: ctx.orig_size
    input_file       \* process_image: what cfg.input_file names

\* the variables of with_text alone
wt_vars == <<text, rendered, copyright, exif, scale, font_found, font_size,
             text_fill>>

\* the variables of overlay_transparent and find_best_location alone
ov_vars == <<bg_gray, overlay, position, alpha, invert, pos, invert_overlay,
             overlay_image, watermark_image, cands, loc>>

\* the variables of the command line and of calculate_new_size alone
cli_vars == <<argv, ns_order, verbose, output_given, out_file, out_file0, force, no_op,
              cfg,
              cfg0, orig_size, input_file>>

vars == <<api, background, bg0, bg_gray, overlay, position, padding, alpha, invert, pc,
          pos, coords, stat, invert_overlay, overlay_image, watermark_image, err, cands, loc,
          ret, text, rendered, copyright, exif, scale, font_found, font_size,
          text_fill, argv, ns_order, verbose, output_given, out_file, out_file0,
          force, no_op, cfg, cfg0, orig_size, input_file>>

----------------------------------------------------------------------------
(* Bounds of the model *)

\* the most bright pixels a drawn background has on black
MaxSpeckles == 4

\* the font size at which the model leaves the font-size search
MaxFontSize == 16

\* the most commands a drawn command line has
MaxArgs == 3

\* the largest width and height of an original image in calculate_new_size
MaxDim == 6

----------------------------------------------------------------------------
(* Numbers *)

\* int() of the float n/d: truncation toward zero (d > 0)
Trunc(n, d) == IF n >= 0 THEN n \div d ELSE -((-n) \div d)

Rat(n, d) == [num |-> n, den |-> d]

----------------------------------------------------------------------------
(* Data structures *)

\* every Position of pyimgtool.data_structures, in its enumeration order
Positions == <<"TOP_LEFT", "TOP_RIGHT", "BOTTOM_LEFT", "BOTTOM_RIGHT",
               "BOTTOM_CENTER", "CENTER">>

Size(w, h) == [width |-> w, height |-> h]

Box(x0, y0, x1, y1) == [x0 |-> x0, y0 |-> y0, x1 |-> x1, y1 |-> y1]

Height(im) == im.height

Width(im) == im.width

\* the points <<x, y>> of an image
Points(im) == (0..(im.width - 1)) \X (0..(im.height - 1))

\* the pixel at column pt[1] of row pt[2]
Pixel(im, pt) == IF pt \in DOMAIN im.dots THEN im.dots[pt] ELSE im.fill

\* the image of the given size whose pixel at each point of pts is px[pt],
\* and the fill elsewhere
Image(w, h, fill, pts, px) ==
    [width |-> w, height |-> h, fill |-> fill,
     dots |-> [pt \in {q \in pts : px[q] # fill} |-> px[pt]]]

\* the image with every pixel px
UniformImage(w, h, px) == Image(w, h, px, {}, <<>>)

\* Size.from_np: (width, height) from the array's shape (h, w, ...)
from_np(im) == Size(Width(im), Height(im))

\* Position.calculate_for_overlay: the Box of the overlay anchored at p,
\* inset by pad * image dimension from the edges it is anchored to
calculate_for_overlay(p, im_size, ov_size, pad) ==
    LET W == im_size.width
        H == im_size.height
        w == ov_size.width
        h == ov_size.height
        left   == Trunc(pad.num * W, pad.den)
        right  == Trunc(pad.den * (W - w) - pad.num * W, pad.den)
        top    == Trunc(pad.num * H, pad.den)
        bottom == Trunc(pad.den * (H - h) - pad.num * H, pad.den)
        midx   == Trunc(W - w, 2)
        midy   == Trunc(H - h, 2)
        x0 == CASE p \in {"TOP_LEFT", "BOTTOM_LEFT"}   -> left
                [] p \in {"TOP_RIGHT", "BOTTOM_RIGHT"} -> right
                [] OTHER                               -> midx
        y0 == CASE p \in {"TOP_LEFT", "TOP_RIGHT"}                        -> top
                [] p \in {"BOTTOM_LEFT", "BOTTOM_RIGHT", "BOTTOM_CENTER"} -> bottom
                [] OTHER                                                  -> midy
    IN Box(x0, y0, x0 + w, y0 + h)

----------------------------------------------------------------------------
(* Region statistics *)

\* a bound of a Python slice over an axis of length len
SliceBound(i, len) ==
    IF i < 0 THEN (IF i + len < 0 THEN 0 ELSE i + len)
    ELSE (IF i > len THEN len ELSE i)

\* the indices a[lo:hi] selects on an axis of length len
SliceIdx(lo, hi, len) == SliceBound(lo, len) .. (SliceBound(hi, len) - 1)

\* cv2.cvtColor(..., COLOR_RGB2GRAY) of one 8-bit pixel
RGB2GRAY(px) == (px[1] * 4899 + px[2] * 9617 + px[3] * 1868 + 8192) \div 16384

GrayImage(im) ==
    Image(im.width, im.height, RGB2GRAY(im.fill), DOMAIN im.dots,
          [pt \in DOMAIN im.dots |-> RGB2GRAY(im.dots[pt])])

\* Stat: mean = sum / n and stddev = sqrt(nnvar) / n, both nan when n = 0.
\* It is built from the n values' differences to a base value: d1 is their
\* sum and d2 the sum of their squares, so that the variance, which does
\* not change when every value is shifted by base, is (n * d2 - d1^2) / n^2.
Stat(n, base, d1, d2) ==
    [n |-> n, sum |-> n * base + d1, nnvar |-> n * d2 - d1 * d1]

NoStat == Stat(0, 0, 0, 0)

IsNan(st) == st.n = 0

\* a.stddev < b.stddev as floats: false when either is nan
StddevLess(a, b) ==
    /\ ~IsNan(a)
    /\ ~IsNan(b)
    /\ a.nnvar * (b.n * b.n) < b.nnvar * (a.n * a.n)

\* the sum of (v - base)^k over the pixels at pts, value by value: each
\* value of vs counts as often as it occurs (k is 1 or 2)
RECURSIVE TallySum(_, _, _, _, _)
TallySum(vs, im, pts, base, k) ==
    IF vs = {} THEN 0
    ELSE LET v == CHOOSE u \in vs : TRUE
             count == Cardinality({pt \in pts : Pixel(im, pt) = v})
             term == IF k = 1 THEN v - base ELSE (v - base) * (v - base)
         IN term * count + TallySum(vs \ {v}, im, pts, base, k)

\* the Stat of the values of im at column x of row y, y in ys and x in xs
StatOver(im, ys, xs) ==
    IF ys = {} \/ xs = {} THEN NoStat
    ELSE LET pts == xs \X ys
             vals == {Pixel(im, pt) : pt \in pts}
             base == CHOOSE v \in vals : \A u \in vals : v <= u
         IN Stat(Cardinality(pts), base,
                 TallySum(vals, im, pts, base, 1),
                 TallySum(vals, im, pts, base, 2))

\* the statistics of im[y0:y1 + 1, x0:x1 + 1]
get_region_stats_np_inclusive(im, region) ==
    StatOver(im, SliceIdx(region.y0, region.y1 + 1, Height(im)),
                 SliceIdx(region.x0, region.x1 + 1, Width(im)))

\* get_region_stats_np: mean and population stddev of im[y0:y1, x0:x1]
get_region_stats_np(im, region) ==
    StatOver(im, SliceIdx(region.y0, region.y1, Height(im)),
                 SliceIdx(region.x0, region.x1, Width(im)))

----------------------------------------------------------------------------
(* Placement selector (numeric path) *)

\* lines 137-142: the (Position, Box, Stat) triples find_best_position
\* appends, one for each Position from the i-th on, CENTER left out
RECURSIVE CollectFrom(_, _, _, _, _)
CollectFrom(i, positions, im, size, pad) ==
    IF i > Len(Positions) THEN positions
    ELSE IF Positions[i] = "CENTER"
         THEN CollectFrom(i + 1, positions, im, size, pad)
    ELSE LET box == calculate_for_overlay(Positions[i], from_np(im), size, pad)
         IN CollectFrom(i + 1,
                        Append(positions,
                               [p |-> Positions[i], box |-> box,
                                st |-> get_region_stats_np(im, box)]),
                        im, size, pad)

Candidates(im, size, pad) == CollectFrom(1, <<>>, im, size, pad)

\* min() that keeps the last minimal item
RECURSIVE MinFromLast(_, _, _)
MinFromLast(seq, i, best) ==
    IF i > Len(seq) THEN best
    ELSE MinFromLast(seq, i + 1,
                     IF StddevLess(best.st, seq[i].st) THEN best ELSE seq[i])

\* Python's min(seq, key=stddev): an item replaces the best so far only
\* when its key is < the best key, so the first minimal item is kept
RECURSIVE MinFrom(_, _, _)
MinFrom(seq, i, best) ==
    IF i > Len(seq) THEN best
    ELSE MinFrom(seq, i + 1,
                 IF StddevLess(seq[i].st, best.st) THEN seq[i] ELSE best)

\* a.mean < b.mean as floats
MeanLess(a, b) == ~IsNan(a) /\ ~IsNan(b) /\ a.sum * b.n < b.sum * a.n

RECURSIVE MinMeanFrom(_, _, _)
MinMeanFrom(seq, i, best) ==
    IF i > Len(seq) THEN best
    ELSE MinMeanFrom(seq, i + 1,
                     IF MeanLess(seq[i].st, best.st) THEN seq[i] ELSE best)

\* the selection keyed on the mean instead of the stddev
find_best_position_by_mean(im, size, pad) ==
    LET positions == Candidates(im, size, pad)
    IN MinMeanFrom(positions, 2, positions[1])

\* the selection taking the last of the candidates
find_best_position_last(im, size, pad) ==
    LET positions == Candidates(im, size, pad)
    IN positions[Len(positions)]

find_best_position(im, size, pad) ==
    LET positions == Candidates(im, size, pad)
    IN MinFrom(positions, 2, positions[1])

----------------------------------------------------------------------------
(* Compositor *)

\* ~x of an 8-bit value
BitNot(v) == 255 - v

\* the colours of a pixel times its alpha channel, when it has one
RgbTimesAlpha(px) ==
    IF Len(px) = 4
    THEN <<(px[1] * px[4]) \div 255, (px[2] * px[4]) \div 255,
           (px[3] * px[4]) \div 255>>
    ELSE <<px[1], px[2], px[3]>>

Rgb(px) == <<px[1], px[2], px[3]>>

\* one pixel with the opaque alpha channel appended when it has three
\* channels
OpaquePixel(px) == IF Len(px) = 3 THEN Append(px, 255) ELSE px

\* lines 336-341: np.concatenate of a channel of 255 to a 3-channel overlay
WithAlpha(ov) ==
    Image(ov.width, ov.height, OpaquePixel(ov.fill), DOMAIN ov.dots,
          [pt \in DOMAIN ov.dots |-> OpaquePixel(ov.dots[pt])])

\* overlay[..., :3]
ColourChannels(ov) ==
    Image(ov.width, ov.height, Rgb(ov.fill), DOMAIN ov.dots,
          [pt \in DOMAIN ov.dots |-> Rgb(ov.dots[pt])])

InvertPixel(px) == <<BitNot(px[1]), BitNot(px[2]), BitNot(px[3])>>

\* ~overlay_image
InvertImage(im) ==
    Image(im.width, im.height, InvertPixel(im.fill), DOMAIN im.dots,
          [pt \in DOMAIN im.dots |-> InvertPixel(im.dots[pt])])

\* luminance_factor = stat.mean / 256.0 > 0.5 (false for a nan mean)
AutoInvert(st) == ~IsNan(st) /\ 2 * st.sum > 256 * st.n

\* the two inversion decisions joined by "or": one inversion at most
BlendColoursOr(ov, auto, inv) ==
    IF auto \/ inv THEN InvertImage(ColourChannels(ov)) ELSE ColourChannels(ov)

\* the colours that enter the blend: inverted when the region is bright,
\* and inverted (again) when the invert argument is set
BlendColours(ov, auto, inv) ==
    LET a == IF auto THEN InvertImage(ColourChannels(ov)) ELSE ColourChannels(ov)
    IN IF inv THEN InvertImage(a) ELSE a

\* the blend of one channel with the mask taken from the colours after
\* the inversions
BlendChannelMaskAfter(bg, oc, used, a) ==
    Trunc((256 * a.den - used * a.num) * bg + used * a.num * used, 256 * a.den)

\* one channel of (1.0 - mask) * background + mask * overlay_image with
\* mask = overlay / 256.0 * alpha, stored into the 8-bit background
BlendChannel(bg, oc, used, a) ==
    Trunc((256 * a.den - oc * a.num) * bg + oc * a.num * used, 256 * a.den)

BlendPixel(bgpx, ovpx, usedpx, a) ==
    <<BlendChannel(bgpx[1], ovpx[1], usedpx[1], a),
      BlendChannel(bgpx[2], ovpx[2], usedpx[2], a),
      BlendChannel(bgpx[3], ovpx[3], usedpx[3], a)>>

\* numpy broadcasting of the slice against the overlay along one axis, and
\* of the result back into the slice: the lengths agree, or the slice is
\* empty and the overlay has length 1
AxisFits(slice_len, ov_len) ==
    slice_len = ov_len \/ (slice_len = 0 /\ ov_len = 1)

SliceLen(lo, hi, len) == Cardinality(SliceIdx(lo, hi, len))

BlendFits(bg, ov, box) ==
    /\ AxisFits(SliceLen(box.y0, box.y1, Height(bg)), Height(ov))
    /\ AxisFits(SliceLen(box.x0, box.x1, Width(bg)), Width(ov))

\* the blend bound to a new array of the overlay's shape instead of
\* being stored into the slice of the background
BlendIntoSlice(bg, ov, used, box, a) ==
    LET ylo == SliceBound(box.y0, Height(bg))
        xlo == SliceBound(box.x0, Width(bg))
        new == [pt \in Points(ov) |->
                  BlendPixel(Pixel(bg, <<pt[1] + xlo, pt[2] + ylo>>),
                             Pixel(ov, pt), Pixel(used, pt), a)]
    IN Image(ov.width, ov.height, bg.fill, Points(ov), new)

\* the blend stored into the whole rows y0:y1 of the background, the
\* overlay repeated along them
BlendIntoRows(bg, ov, used, box, a) ==
    LET ys == SliceIdx(box.y0, box.y1, Height(bg))
        xs == 0..(Width(bg) - 1)
        ylo == SliceBound(box.y0, Height(bg))
        pts == (xs \X ys) \cup DOMAIN bg.dots
        new == [pt \in pts |->
                  IF pt[2] \in ys
                  THEN BlendPixel(Pixel(bg, pt),
                                  Pixel(ov, <<pt[1] % Width(ov), pt[2] - ylo>>),
                                  Pixel(used, <<pt[1] % Width(ov), pt[2] - ylo>>), a)
                  ELSE Pixel(bg, pt)]
    IN Image(bg.width, bg.height, bg.fill, pts, new)

\* background[y0:y1, x0:x1] = (1.0 - mask) * background[y0:y1, x0:x1]
\*                            + mask * overlay_image
BlendInto(bg, ov, used, box, a) ==
    LET ys == SliceIdx(box.y0, box.y1, Height(bg))
        xs == SliceIdx(box.x0, box.x1, Width(bg))
        ylo == SliceBound(box.y0, Height(bg))
        xlo == SliceBound(box.x0, Width(bg))
        pts == (xs \X ys) \cup DOMAIN bg.dots
        new == [pt \in pts |->
                  IF pt[1] \in xs /\ pt[2] \in ys
                  THEN BlendPixel(Pixel(bg, pt),
                                  Pixel(ov, <<pt[1] - xlo, pt[2] - ylo>>),
                                  Pixel(used, <<pt[1] - xlo, pt[2] - ylo>>), a)
                  ELSE Pixel(bg, pt)]
    IN Image(bg.width, bg.height, bg.fill, pts, new)

\* the size check with "and" for "or"
TooLargeBoth(box, bg) ==
    (box.x1 - box.x0) > Width(bg) /\ (box.y1 - box.y0) > Height(bg)

\* the size check of overlay_transparent
TooLarge(box, bg) ==
    (box.x1 - box.x0) > Width(bg) \/ (box.y1 - box.y0) > Height(bg)

----------------------------------------------------------------------------
(* overlay_transparent, in three steps *)

\* the search run whatever the position argument is
PlacementAlwaysSearch(bg, gray, ov, position_arg, pad) ==
    LET best == find_best_position(gray, from_np(ov), pad)
    IN [pos |-> best.p, coords |-> best.box, stat |-> best.st]

\* lines 322-330: the search on the grayscale copy when no position is
\* given, and the given position's Box and its Stat otherwise
Placement(bg, gray, ov, position_arg, pad) ==
    IF position_arg = "None"
    THEN LET best == find_best_position(gray, from_np(ov), pad)
         IN [pos |-> best.p, coords |-> best.box, stat |-> best.st]
    ELSE LET box == calculate_for_overlay(position_arg, from_np(bg),
                                          from_np(ov), pad)
         IN [pos |-> "None", coords |-> box,
             stat |-> get_region_stats_np(gray, box)]

\* lines 312-330: the grayscale copy, then the placement
Place ==
    /\ api = "overlay_transparent"
    /\ pc = "start"
    /\ bg_gray' = GrayImage(background)
    /\ LET placed == Placement(background, bg_gray', overlay, position, padding)
       IN /\ pos' = placed.pos
          /\ coords' = placed.coords
          /\ stat' = placed.stat
    /\ pc' = "placed"
    /\ UNCHANGED <<api, background, bg0, overlay, position, padding, alpha,
                   invert, invert_overlay, overlay_image, watermark_image, err, cands, loc,
                   ret, wt_vars, cli_vars>>

\* the size check made after the write: what fits is blended in, and
\* then the error is raised
SizeCheckAfterBlend ==
    /\ api = "overlay_transparent"
    /\ pc = "placed"
    /\ IF TooLarge(coords, background)
       THEN /\ pc' = "raised"
            /\ err' = "OverlaySizeError"
            /\ background' = BlendInto(background,
                                       ColourChannels(WithAlpha(overlay)),
                                       ColourChannels(WithAlpha(overlay)),
                                       coords, alpha)
       ELSE pc' = "checked" /\ err' = err /\ background' = background
    /\ UNCHANGED <<api, bg0, bg_gray, overlay, position, padding,
                   alpha, invert, pos, coords, stat, invert_overlay,
                   overlay_image, watermark_image, cands, loc, ret, wt_vars, cli_vars>>

\* lines 331-335: the overlay must not be larger than the background
SizeCheck ==
    /\ api = "overlay_transparent"
    /\ pc = "placed"
    /\ IF TooLarge(coords, background)
       THEN pc' = "raised" /\ err' = "OverlaySizeError"
       ELSE pc' = "checked" /\ err' = err
    /\ UNCHANGED <<api, background, bg0, bg_gray, overlay, position, padding,
                   alpha, invert, pos, coords, stat, invert_overlay,
                   overlay_image, watermark_image, cands, loc, ret, wt_vars, cli_vars>>

\* lines 336-357: mask, inversion and the write into the background
Blend ==
    /\ api = "overlay_transparent"
    /\ pc = "checked"
    /\ invert_overlay' = AutoInvert(stat)
    /\ overlay_image' = BlendColours(WithAlpha(overlay), AutoInvert(stat), invert)
    /\ IF BlendFits(background, overlay, coords)
       THEN /\ background' = BlendInto(background,
                                       ColourChannels(WithAlpha(overlay)),
                                       overlay_image', coords, alpha)
            /\ pc' = "done"
            /\ err' = err
            /\ ret' = "background"
       ELSE /\ background' = background
            /\ pc' = "raised"
            /\ err' = "ValueError"
            /\ ret' = ret
    /\ UNCHANGED <<api, bg0, bg_gray, overlay, position, padding, alpha,
                   invert, pos, coords, stat, cands, loc, watermark_image,
                   wt_vars, cli_vars>>

\* overlay_transparent as one function of its arguments: the exception
\* it raises ("None" when it returns) and the background array afterwards
overlay_transparent(bg, ov, position_arg, pad, a, inv) ==
    LET placed == Placement(bg, GrayImage(bg), ov, position_arg, pad)
    IN IF TooLarge(placed.coords, bg)
       THEN [err |-> "OverlaySizeError", background |-> bg]
       ELSE IF ~BlendFits(bg, ov, placed.coords)
       THEN [err |-> "ValueError", background |-> bg]
       ELSE [err |-> "None",
             background |->
                 BlendInto(bg, ColourChannels(WithAlpha(ov)),
                           BlendColours(WithAlpha(ov),
                                        AutoInvert(placed.stat), inv),
                           placed.coords, a)]

----------------------------------------------------------------------------
(* Placement selector (PIL path) *)

\* Image.convert("L") of one 8-bit RGB pixel
ConvertL(px) == (px[1] * 19595 + px[2] * 38470 + px[3] * 7471 + 32768) \div 65536

LImage(im) ==
    Image(im.width, im.height, ConvertL(im.fill), DOMAIN im.dots,
          [pt \in DOMAIN im.dots |-> ConvertL(im.dots[pt])])

\* get_region_stats: ImageStat of the L image under a mask on which the
\* rectangle is drawn; ImageDraw.rectangle fills both corner points, and
\* only the part of it that lies on the image
get_region_stats(im, region) ==
    StatOver(LImage(im),
             {y \in 0..(Height(im) - 1) : region.y0 <= y /\ y <= region.y1},
             {x \in 0..(Width(im) - 1) : region.x0 <= x /\ x <= region.x1})

\* the order of find_best_location's paddings and locations lists
Locations == <<"BOTTOM_LEFT", "BOTTOM_RIGHT", "TOP_LEFT", "TOP_RIGHT",
               "BOTTOM_CENTER">>

\* lines 74-91: the top-left corner of each candidate, int() of each float
LocationPaddings(im_size, size, pad) ==
    LET W == im_size.width
        H == im_size.height
        padW    == Trunc(pad.num * W, pad.den)
        right   == Trunc(pad.den * (W - size.width) - pad.num * W, pad.den)
        top     == Trunc(pad.num * H, pad.den)
        bottom  == Trunc(pad.den * (H - size.height) - pad.num * H, pad.den)
        centre  == Trunc(W - size.width, 2)
    IN << <<padW, bottom>>, <<right, bottom>>, <<padW, padW>>, <<right, top>>,
          <<centre, bottom>> >>

\* lines 92-103: the Box handed to get_region_stats for each candidate
LocationBoxes(im_size, size, pad) ==
    LET paddings == LocationPaddings(im_size, size, pad)
    IN [i \in 1..Len(paddings) |->
          Box(paddings[i][1], paddings[i][2],
              paddings[i][1] + size.width, paddings[i][2] + size.height)]

\* stats.index(min(stats)): the first index of a minimal stddev
RECURSIVE MinIndexFrom(_, _, _)
MinIndexFrom(stats, i, best) ==
    IF i > Len(stats) THEN best
    ELSE MinIndexFrom(stats, i + 1,
                      IF StddevLess(stats[i], stats[best]) THEN i ELSE best)

find_best_location(im, size, pad) ==
    LET boxes == LocationBoxes(from_np(im), size, pad)
        stats == [i \in 1..Len(boxes) |-> get_region_stats(im, boxes[i])]
    IN Locations[MinIndexFrom(stats, 2, 1)]

\* a call of find_best_location: ImageStat's stddev divides by the pixel
\* count of the region
FindBestLocation ==
    /\ api = "find_best_location"
    /\ pc = "start"
    /\ cands' = LocationBoxes(from_np(background), from_np(overlay), padding)
    /\ IF \E i \in 1..Len(cands') : IsNan(get_region_stats(background, cands'[i]))
       THEN pc' = "raised" /\ err' = "ZeroDivisionError" /\ loc' = loc
       ELSE /\ pc' = "done"
            /\ err' = err
            /\ loc' = find_best_location(background, from_np(overlay), padding)
    /\ UNCHANGED <<api, background, bg0, bg_gray, overlay, position, padding,
                   alpha, invert, pos, coords, stat, invert_overlay,
                   overlay_image, watermark_image, ret, wt_vars, cli_vars>>

----------------------------------------------------------------------------
(* Command line *)

\* the elements of a sequence
Range(seq) == {seq[i] : i \in 1..Len(seq)}

\* commands.choices: the commands in the order they are added to the parser
Commands == <<"open", "open2", "mat", "resize", "resize2", "watermark",
              "watermark2", "text", "text2", "sharpen", "save">>

\* OrderedNamespace.__setattr__: what _order is after attr is set
SetAttr(order, attr) ==
    IF attr \in Range(Commands)
    THEN (IF attr \in Range(order) THEN <<attr>> ELSE Append(order, attr))
    ELSE order

\* _order after the attributes attrs are set one after the other, from i on
RECURSIVE SetAll(_, _, _)
SetAll(order, attrs, i) ==
    IF i > Len(attrs) THEN order
    ELSE SetAll(SetAttr(order, attrs[i]), attrs, i + 1)

\* parse_args: _order after every command is set to None and then the
\* commands found on the command line are set to their namespaces
ParsedOrder(args) == SetAll(SetAll(<<>>, Commands, 1), args, 1)

\* what argparse.FileType(mode="w") leaves in the file it opens
OpenedForWriting(file) == "empty"

\* parse_args as a whole: with no argument at all it prints the usage and
\* exits; otherwise it leaves the order of the commands, and the output
\* argument of a save command, where one is given, opened for writing
ParseArgs ==
    /\ api = "main"
    /\ pc = "start"
    /\ IF argv = <<>> /\ ~verbose
       THEN /\ pc' = "exited"
            /\ err' = "SystemExit"
            /\ UNCHANGED <<ns_order, out_file>>
       ELSE /\ ns_order' = ParsedOrder(argv)
            /\ out_file' = IF "save" \in Range(argv) /\ output_given
                           THEN OpenedForWriting(out_file)
                           ELSE out_file
            /\ pc' = "parsed"
            /\ err' = err
    /\ UNCHANGED <<api, background, bg0, padding, coords, stat, ret,
                   wt_vars, ov_vars, argv, verbose, output_given, out_file0,
                   force, no_op, cfg, cfg0, orig_size, input_file>>

\* main, lines 31-36: the namespace parse_args returns has its top-level
\* options moved into _top_level and deleted, so reading
\* argslist.verbosity raises AttributeError, which is not caught: the
\* loop over _order and the report after it are never reached
SetLogLevel ==
    /\ api = "main"
    /\ pc = "parsed"
    /\ pc' = "raised"
    /\ err' = "AttributeError"
    /\ UNCHANGED <<api, background, bg0, padding, coords, stat, ret,
                   wt_vars, ov_vars, cli_vars>>

----------------------------------------------------------------------------
(* New size *)

\* int(round(n / d)) for d > 0: the nearest integer, the even one of two
RoundHalfEven(n, d) ==
    LET q == (2 * n + d) \div (2 * d)
    IN IF (2 * n + d) % (2 * d) = 0 /\ q % 2 = 1 THEN q - 1 ELSE q

\* calculate_new_size if a width given alone came before the scale
calculate_new_size_width_first(c, orig) ==
    IF c.width # 0 /\ c.height = 0
    THEN [c EXCEPT !.height = RoundHalfEven(c.width * orig.height, orig.width)]
    ELSE IF c.pct_scale # 0
    THEN [c EXCEPT !.width = RoundHalfEven(orig.width * c.pct_scale, 100),
                   !.height = RoundHalfEven(orig.height * c.pct_scale, 100)]
    ELSE IF c.height # 0 /\ c.width = 0
    THEN [c EXCEPT !.width = RoundHalfEven(c.height * orig.width, orig.height)]
    ELSE IF c.height = 0 /\ c.width = 0
    THEN [c EXCEPT !.width = orig.width, !.height = orig.height]
    ELSE c

\* calculate_new_size: cfg with the width and height it is left with;
\* pct_scale is in percent, and 0 stands for an option that is not given
calculate_new_size(c, orig) ==
    IF c.pct_scale # 0
    THEN [c EXCEPT !.width = RoundHalfEven(orig.width * c.pct_scale, 100),
                   !.height = RoundHalfEven(orig.height * c.pct_scale, 100)]
    ELSE IF c.width # 0 /\ c.height = 0
    THEN [c EXCEPT !.height = RoundHalfEven(c.width * orig.height, orig.width)]
    ELSE IF c.height # 0 /\ c.width = 0
    THEN [c EXCEPT !.width = RoundHalfEven(c.height * orig.width, orig.height)]
    ELSE IF c.height = 0 /\ c.width = 0
    THEN [c EXCEPT !.width = orig.width, !.height = orig.height]
    ELSE c

\* a call of calculate_new_size(cfg, ctx)
CalculateNewSize ==
    /\ api = "calculate_new_size"
    /\ pc = "start"
    /\ cfg' = calculate_new_size(cfg, orig_size)
    /\ pc' = "done"
    /\ UNCHANGED <<api, background, bg0, padding, coords, stat, err, ret,
                   wt_vars, ov_vars, argv, ns_order, verbose, output_given, out_file,
                   out_file0, force, no_op, cfg0, orig_size, input_file>>

----------------------------------------------------------------------------
(* Processing one image *)

\* process_image of image.py, for a cfg that asks for no watermark: the
\* input file is required; the size of the image is read into
\* ctx.orig_size; im.info["dpi"] raises KeyError on a file that records no
\* dpi; the new size is computed into cfg, and the image is saved into a
\* buffer of ctx, which is returned: no file is written
ProcessImage ==
    /\ api = "image.process_image"
    /\ pc = "start"
    /\ IF input_file = "None"
       THEN /\ pc' = "raised"
            /\ err' = "ValueError"
            /\ UNCHANGED <<orig_size, cfg, ret>>
       ELSE /\ orig_size' = from_np(background)
            /\ IF input_file = "no_dpi"
               THEN /\ pc' = "raised"
                    /\ err' = "KeyError"
                    /\ UNCHANGED <<cfg, ret>>
               ELSE /\ cfg' = calculate_new_size(cfg, orig_size')
                    /\ pc' = "done"
                    /\ err' = err
                    /\ ret' = "ctx"
    /\ UNCHANGED <<api, background, bg0, padding, coords, stat,
                   wt_vars, ov_vars, argv, ns_order, verbose, output_given, out_file,
                   out_file0, force, no_op, cfg0, input_file>>

\* process_image of cli.py, for a cfg that asks for no watermark: as the
\* one of image.py, but the new size is the one that
\* resize.calculate_new_size returns; that function is not among the
\* sources, so the size it returns is left open
CliProcessImage ==
    /\ api = "cli.process_image"
    /\ pc = "start"
    /\ IF input_file = "None"
       THEN /\ pc' = "raised"
            /\ err' = "ValueError"
            /\ UNCHANGED <<orig_size, cfg, ret>>
       ELSE /\ orig_size' = from_np(background)
            /\ IF input_file = "no_dpi"
               THEN /\ pc' = "raised"
                    /\ err' = "KeyError"
                    /\ UNCHANGED <<cfg, ret>>
               ELSE /\ \E new_size \in {Size(w, h) : w \in 1..MaxDim,
                                                      h \in 1..MaxDim} :
                          cfg' = [cfg EXCEPT !.width = new_size.width,
                                             !.height = new_size.height]
                    /\ pc' = "done"
                    /\ err' = err
                    /\ ret' = "ctx"
    /\ UNCHANGED <<api, background, bg0, padding, coords, stat,
                   wt_vars, ov_vars, argv, ns_order, verbose, output_given, out_file,
                   out_file0, force, no_op, cfg0, input_file>>

----------------------------------------------------------------------------
(* The older program, pyimg.py *)

\* main of pyimg.py, lines 263-272: args with the width and height it is
\* left with; pct_scale is the factor itself, a given width or height
\* alone is completed after the scale has been applied, and 0 stands for
\* an option that is not given
pyimg_new_size(c, orig) ==
    LET a == IF c.pct_scale.num # 0
             THEN [c EXCEPT
                     !.width = RoundHalfEven(orig.width * c.pct_scale.num,
                                             c.pct_scale.den),
                     !.height = RoundHalfEven(orig.height * c.pct_scale.num,
                                              c.pct_scale.den)]
             ELSE c
    IN IF a.width # 0 /\ a.height = 0
       THEN [a EXCEPT !.height = RoundHalfEven(a.width * orig.height, orig.width)]
       ELSE IF a.height # 0 /\ a.width = 0
       THEN [a EXCEPT !.width = RoundHalfEven(a.height * orig.width, orig.height)]
       ELSE a

\* main of pyimg.py without a watermark and without tinify: the new size
\* is computed, im.thumbnail raises TypeError on a size that is not
\* given, and the output is written, whatever it holds, unless -n is given
PyimgMain ==
    /\ api = "pyimg.main"
    /\ pc = "start"
    /\ cfg' = pyimg_new_size(cfg, orig_size)
    /\ IF cfg'.width = 0 \/ cfg'.height = 0
       THEN /\ pc' = "raised"
            /\ err' = "TypeError"
            /\ out_file' = out_file
       ELSE /\ pc' = "done"
            /\ err' = err
            /\ out_file' = IF no_op THEN out_file ELSE "image"
    /\ UNCHANGED <<api, background, bg0, padding, coords, stat, ret,
                   wt_vars, ov_vars, argv, ns_order, verbose, output_given,
                   out_file0, force, no_op, cfg0, orig_size, input_file>>

----------------------------------------------------------------------------
(* Image watermark (PIL path) *)

\* the padding calculate_for_overlay takes when none is given, and the one
\* with_image hands to find_best_location
DefaultPadding == Rat(1, 20)

\* the opacity times the alpha channel of a watermark pixel, for an
\* opacity of 0 or 1: split()[3].point(lambda i: i * opacity)
PasteMask(px, opacity) == IF opacity.num = 0 THEN 0 ELSE px[4]

\* im.paste(watermark_image, (x, y), mask) for masks of 0 and 255: the
\* watermark's colours where the mask is 255 and the box meets the image
PasteInto(im, wm, x, y, opacity) ==
    LET pts == {pt \in (x..(x + Width(wm) - 1)) \X (y..(y + Height(wm) - 1)) :
                  /\ 0 <= pt[1] /\ pt[1] < Width(im)
                  /\ 0 <= pt[2] /\ pt[2] < Height(im)}
        all == pts \cup DOMAIN im.dots
        new == [pt \in all |->
                  IF /\ pt \in pts
                     /\ PasteMask(Pixel(wm, <<pt[1] - x, pt[2] - y>>), opacity) = 255
                  THEN Rgb(Pixel(wm, <<pt[1] - x, pt[2] - y>>))
                  ELSE Pixel(im, pt)]
    IN Image(im.width, im.height, im.fill, all, new)

\* resize_height(image, size): the image at the height of size, its
\* width in proportion; a uniform image stays uniform
resize_height(im, size) ==
    UniformImage((Width(im) * size.height) \div Height(im), size.height, im.fill)

\* lines 204-213: the watermark is resized when its height is more than
\* scale times the height of the image
Resized(im, wm, sc) ==
    IF Height(wm) * sc.den > sc.num * Height(im)
    THEN resize_height(wm, Size(Trunc(Width(im) * sc.num, sc.den),
                                Trunc(Height(im) * sc.num, sc.den)))
    ELSE wm

\* with_image: the watermark is resized to the scale, the best location
\* is computed, and the watermark is pasted at the Box of the position
\* argument
WithImage ==
    /\ api = "with_image"
    /\ pc = "start"
    /\ watermark_image' = Resized(background, overlay, scale)
    /\ cands' = LocationBoxes(from_np(background), from_np(watermark_image'),
                              DefaultPadding)
    /\ IF \E i \in 1..Len(cands') : IsNan(get_region_stats(background, cands'[i]))
       THEN /\ pc' = "raised"
            /\ err' = "ZeroDivisionError"
            /\ UNCHANGED <<loc, coords, background, ret>>
       ELSE /\ loc' = find_best_location(background, from_np(watermark_image'),
                                         DefaultPadding)
            /\ IF position = "None"
               THEN /\ pc' = "raised"
                    /\ err' = "AttributeError"
                    /\ UNCHANGED <<coords, background, ret>>
               ELSE /\ coords' = calculate_for_overlay(position, from_np(background),
                                                      from_np(watermark_image'),
                                                      DefaultPadding)
                    /\ background' = PasteInto(background, watermark_image',
                                               coords'.x0, coords'.y0, alpha)
                    /\ pc' = "done"
                    /\ err' = err
                    /\ ret' = "im"
    /\ UNCHANGED <<api, bg0, bg_gray, overlay, position, padding, alpha, invert,
                   pos, stat, invert_overlay, overlay_image, wt_vars, cli_vars>>

----------------------------------------------------------------------------
(* Text watermark *)

\* the year of datetime.now()
NowYear == 2026

DigitChars == <<"0", "1", "2", "3", "4", "5", "6", "7", "8", "9">>

\* strftime("%Y") of a year, as glibc formats it: the decimal digits
RECURSIVE Digits(_)
Digits(n) ==
    IF n < 10 THEN <<DigitChars[n + 1]>>
    ELSE Append(Digits(n \div 10), DigitChars[(n % 10) + 1])

\* get_copyright_string: the copyright sign, a space and the year the
\* photo was taken, or the year of today when exif holds no date; the
\* exception raised otherwise
get_copyright_string(ex) ==
    CASE ex.kind = "None"      -> [err |-> "UnboundLocalError", text |-> <<>>]
      [] ex.kind = "Malformed" -> [err |-> "ValueError", text |-> <<>>]
      [] ex.kind = "NoDate"    ->
             [err |-> "None", text |-> <<"(c)", " ">> \o Digits(NowYear)]
      [] OTHER                 ->
             [err |-> "None", text |-> <<"(c)", " ">> \o Digits(ex.year)]

\* a call of get_copyright_string on its own: the string it returns, or
\* the exception it raises
GetCopyrightString ==
    /\ api = "get_copyright_string"
    /\ pc = "start"
    /\ LET c == get_copyright_string(exif)
       IN IF c.err # "None"
          THEN pc' = "raised" /\ err' = c.err /\ rendered' = rendered
          ELSE pc' = "done" /\ err' = err /\ rendered' = c.text
    /\ UNCHANGED <<api, background, bg0, padding, coords, stat, ret, text,
                   copyright, exif, scale, font_found, font_size, text_fill,
                   ov_vars, cli_vars>>

\* the advance of one glyph at a font size, in pixels: half the size,
\* rounded; FreeType takes a size below 1 as 1
GlyphAdvance(size) == ((IF size < 1 THEN 1 ELSE size) + 1) \div 2

\* font.getsize(text)[0]
TextWidth(t, size) == Len(t) * GlyphAdvance(size)

\* font.getsize(text)[1]
TextHeight(size) == IF size < 1 THEN 1 ELSE size

\* font.getsize(text)[0] < scale * im.width
Narrower(t, size, sc, im) == TextWidth(t, size) * sc.den < sc.num * Width(im)

\* font.getsize(text)[0] > scale * im.width
Wider(t, size, sc, im) == TextWidth(t, size) * sc.den > sc.num * Width(im)

\* stats.mean[0] / 256 >= 0.5
DarkFill(st) == 2 * st.sum >= 256 * st.n

\* lines 388-406: the copyright prefix, then the font at the starting size;
\* without the font file the image is returned as it is
WT_Start ==
    /\ api = "with_text"
    /\ pc = "start"
    /\ font_size' = 1
    /\ LET c == get_copyright_string(exif)
           prefixed == copyright /\ exif.kind # "None"
       IN IF prefixed /\ c.err # "None"
          THEN /\ pc' = "raised"
               /\ err' = c.err
               /\ rendered' = rendered
               /\ ret' = ret
          ELSE /\ rendered' = IF prefixed THEN c.text \o <<" ">> \o text
                                           ELSE text
               /\ err' = err
               /\ IF font_found
                  THEN pc' = "sizing" /\ ret' = ret
                  ELSE pc' = "done" /\ ret' = "im"
    /\ UNCHANGED <<api, background, bg0, padding, coords, stat, text,
                   copyright, exif, scale, font_found, text_fill, ov_vars, cli_vars>>

\* lines 409-412: one turn of the loop that grows the font
WT_Grow ==
    /\ api = "with_text"
    /\ pc = "sizing"
    /\ Narrower(rendered, font_size, scale, background)
    /\ font_size < MaxFontSize
    /\ font_size' = font_size + 1
    /\ UNCHANGED <<api, background, bg0, padding, pc, coords, stat, err, ret,
                   text, rendered, copyright, exif, scale, font_found,
                   text_fill, ov_vars, cli_vars>>

\* lines 414-416: the loop is left, and the font is made one size smaller
\* when the text is wider than the target; ImageFont.truetype of size 0
\* raises, or gives the font of the smallest size, by the library's version
WT_StepBack ==
    /\ api = "with_text"
    /\ pc = "sizing"
    /\ ~Narrower(rendered, font_size, scale, background)
    /\ IF Wider(rendered, font_size, scale, background)
       THEN /\ font_size' = font_size - 1
            /\ \/ pc' = "sized" /\ err' = err
               \/ font_size' = 0 /\ pc' = "raised" /\ err' = "ValueError"
       ELSE /\ font_size' = font_size
            /\ pc' = "sized"
            /\ err' = err
    /\ UNCHANGED <<api, background, bg0, padding, coords, stat, ret, text,
                   rendered, copyright, exif, scale, font_found, text_fill,
                   ov_vars, cli_vars>>

\* lines 418-439: the statistics of the text region, the fill chosen by
\* them, and the text drawn on a copy of the image that is returned
WT_Fill ==
    /\ api = "with_text"
    /\ pc = "sized"
    /\ coords' = Box(Trunc(padding.num, padding.den),
                     Trunc(padding.num, padding.den),
                     TextWidth(rendered, font_size),
                     Height(background) - TextHeight(font_size))
    /\ stat' = get_region_stats(background, coords')
    /\ IF IsNan(stat')
       THEN /\ pc' = "raised"
            /\ err' = "ZeroDivisionError"
            /\ text_fill' = text_fill
            /\ ret' = ret
       ELSE /\ pc' = "done"
            /\ err' = err
            /\ text_fill' = IF DarkFill(stat') THEN <<0, 0, 0>>
                                               ELSE <<255, 255, 255>>
            /\ ret' = "out"
    /\ UNCHANGED <<api, background, bg0, padding, text, rendered, copyright,
                   exif, scale, font_found, font_size, ov_vars, cli_vars>>

----------------------------------------------------------------------------
(* Inputs *)

Black == <<0, 0, 0>>

White == <<255, 255, 255>>

Gray(v) == <<v, v, v>>

\* black backgrounds with at most MaxSpeckles white pixels
SpeckledImages(w, h) ==
    { Image(w, h, Black, S, [pt \in S |-> White]) :
      S \in {T \in SUBSET ((0..(w - 1)) \X (0..(h - 1))) :
                Cardinality(T) <= MaxSpeckles} }

\* black backgrounds with at most one white pixel
SpotImages(w, h) ==
    { Image(w, h, Black, S, [pt \in S |-> White]) :
      S \in {{}} \cup {{pt} : pt \in (0..(w - 1)) \X (0..(h - 1))} }

BgSize == Size(4, 2)

\* overlays that fit, that fill the width, and that are too wide or too high
OverlaySizes == {Size(1, 1), Size(2, 1), Size(2, 2), Size(4, 1), Size(5, 1),
                 Size(1, 3)}

Paddings == {Rat(0, 1), Rat(1, 4), Rat(3, 4)}

Alphas == {Rat(0, 1), Rat(1, 2), Rat(1, 1)}

Colours == {Black, White, <<255, 0, 128>>, <<64, 64, 64>>}

GrayLevels == {0, 127, 128, 129, 255}

\* the alpha channel of a drawn overlay: none (-1), or one value for
\* every pixel
OverlayAlphas == {-1, 0, 77, 255}

\* a pixel of colour c with alpha channel a
OverlayPixel(c, a) == IF a < 0 THEN c ELSE Append(c, a)

PositionArgs == {"None"} \cup {Positions[i] : i \in 1..Len(Positions)}

InitCommon ==
    /\ bg0 = background
    /\ bg_gray = <<>>
    /\ pc = "start"
    /\ pos = "None"
    /\ coords = Box(0, 0, 0, 0)
    /\ stat = NoStat
    /\ invert_overlay = FALSE
    /\ overlay_image = <<>>
    /\ watermark_image = <<>>
    /\ err = "None"
    /\ cands = <<>>
    /\ loc = "None"
    /\ ret = "None"

\* a call of a watermark function: no command line, no size to compute
InitNoCli ==
    /\ argv = <<>>
    /\ ns_order = <<>>
    /\ verbose = FALSE
    /\ output_given = FALSE
    /\ out_file = "absent"
    /\ out_file0 = "absent"
    /\ force = FALSE
    /\ no_op = FALSE
    /\ cfg = [pct_scale |-> 0, width |-> 0, height |-> 0]
    /\ cfg0 = cfg
    /\ orig_size = Size(1, 1)
    /\ input_file = "dpi"

\* a call that is not with_text: its arguments stay at with_text's defaults
InitNoText ==
    /\ text = <<>>
    /\ rendered = <<>>
    /\ copyright = FALSE
    /\ exif = [kind |-> "None", year |-> 0]
    /\ scale = Rat(1, 5)
    /\ font_found = TRUE
    /\ font_size = 1
    /\ text_fill = "None"

\* the selector at work: speckled backgrounds, every position and padding
InitPlacement ==
    /\ api = "overlay_transparent"
    /\ background \in SpeckledImages(BgSize.width, BgSize.height)
    /\ overlay \in {UniformImage(s.width, s.height, White) : s \in OverlaySizes}
    /\ position \in PositionArgs
    /\ padding \in Paddings
    /\ alpha = Rat(1, 2)
    /\ invert = FALSE
    /\ InitCommon
    /\ InitNoCli
    /\ InitNoText

\* the compositor at work: flat backgrounds around mid-gray, coloured
\* overlays, every opacity and both values of invert
InitBlend ==
    /\ api = "overlay_transparent"
    /\ background \in {UniformImage(BgSize.width, BgSize.height, Gray(v)) :
                          v \in GrayLevels}
    /\ overlay \in {Image(2, 1, OverlayPixel(c[1], c[3]), {<<1, 0>>},
                             [pt \in {<<1, 0>>} |-> OverlayPixel(c[2], c[3])]) :
                       c \in Colours \X Colours \X OverlayAlphas}
    /\ position \in {"None", "BOTTOM_RIGHT", "CENTER"}
    /\ padding \in {Rat(0, 1), Rat(1, 4)}
    /\ alpha \in Alphas
    /\ invert \in BOOLEAN
    /\ InitCommon
    /\ InitNoCli
    /\ InitNoText

\* the end-to-end scenario: 800x600 mid-gray, a white 100x50 overlay
InitScenario ==
    /\ api = "overlay_transparent"
    /\ background = UniformImage(800, 600, Gray(128))
    /\ overlay = UniformImage(100, 50, White)
    /\ position \in {"None", "BOTTOM_CENTER"}
    /\ padding = Rat(1, 20)
    /\ alpha = Rat(1, 2)
    /\ invert \in BOOLEAN
    /\ InitCommon
    /\ InitNoCli
    /\ InitNoText

\* find_best_location called on its own
InitLocation ==
    /\ api = "find_best_location"
    /\ background \in SpeckledImages(BgSize.width, BgSize.height)
                       \cup SpotImages(2 * BgSize.width, 2 * BgSize.height)
    /\ overlay \in {UniformImage(s.width, s.height, White) : s \in OverlaySizes}
    /\ position = "None"
    /\ padding \in Paddings
    /\ alpha = Rat(1, 2)
    /\ invert = FALSE
    /\ InitCommon
    /\ InitNoCli
    /\ InitNoText

\* images around mid-gray: flat, or flat but for one darker pixel
TextImages ==
    UNION {{UniformImage(n, n, Gray(127)), UniformImage(n, n, Gray(128)),
            Image(n, n, Gray(128), {<<1, 1>>},
                  [pt \in {<<1, 1>>} |-> Gray(127)])} : n \in {8, 16}}

Texts == {<<>>, <<"a">>, <<"a", "b", "c">>, <<"a", "b", "c", "d", "e">>}

\* exif: none, without a date, with a date of some year, with a date that
\* does not parse
Exifs == {[kind |-> "None", year |-> 0], [kind |-> "NoDate", year |-> 0],
          [kind |-> "Date", year |-> 1987], [kind |-> "Date", year |-> 2019],
          [kind |-> "Malformed", year |-> 0]}

\* with_text called on its own
InitText ==
    /\ api = "with_text"
    /\ background \in TextImages
    /\ overlay = UniformImage(1, 1, White)
    /\ position = "None"
    /\ padding \in {Rat(0, 1), Rat(1, 1)}
    /\ alpha = Rat(1, 2)
    /\ invert = FALSE
    /\ text \in Texts
    /\ rendered = text
    /\ copyright \in BOOLEAN
    /\ exif \in Exifs
    /\ scale \in {Rat(1, 4), Rat(1, 2)}
    /\ font_found \in BOOLEAN
    /\ font_size = 1
    /\ text_fill = "None"
    /\ InitCommon
    /\ InitNoCli

\* get_copyright_string called on its own
InitCopyright ==
    /\ api = "get_copyright_string"
    /\ background = UniformImage(1, 1, Black)
    /\ overlay = UniformImage(1, 1, White)
    /\ position = "None"
    /\ padding = Rat(0, 1)
    /\ alpha = Rat(1, 2)
    /\ invert = FALSE
    /\ text = <<>>
    /\ rendered = <<>>
    /\ copyright = TRUE
    /\ exif \in Exifs
    /\ scale = Rat(1, 5)
    /\ font_found = TRUE
    /\ font_size = 1
    /\ text_fill = "None"
    /\ InitCommon
    /\ InitNoCli

\* a run that watermarks nothing
InitNoWatermark ==
    /\ background = UniformImage(1, 1, Black)
    /\ overlay = UniformImage(1, 1, White)
    /\ position = "None"
    /\ padding = Rat(0, 1)
    /\ alpha = Rat(1, 1)
    /\ invert = FALSE
    /\ InitCommon
    /\ InitNoText

\* the sequences of at most n of the commands cs
RECURSIVE CommandLines(_, _)
CommandLines(cs, n) ==
    IF n = 0 THEN {<<>>}
    ELSE LET shorter == CommandLines(cs, n - 1)
         IN shorter \cup {Append(l, c) : l \in shorter, c \in cs}

\* a run of the program: a command line of open, sharpen and save
\* commands, with or without a top-level option before them and an
\* OUTPUT_FILE after save, and with an output path that exists or not
InitMain ==
    /\ api = "main"
    /\ argv \in CommandLines({"open", "sharpen", "save"}, MaxArgs)
    /\ ns_order = <<>>
    /\ verbose \in BOOLEAN
    /\ output_given \in BOOLEAN
    /\ out_file0 \in {"absent", "old"}
    /\ out_file = out_file0
    /\ force \in BOOLEAN
    /\ no_op = FALSE
    /\ cfg = [pct_scale |-> 0, width |-> 0, height |-> 0]
    /\ cfg0 = cfg
    /\ orig_size = Size(1, 1)
    /\ input_file = "dpi"
    /\ InitNoWatermark

\* a run of pyimg.py: a scale factor, a width and a height that are given
\* or not, on original sizes of which no side is scaled down to nothing
InitPyimg ==
    /\ api = "pyimg.main"
    /\ cfg \in [pct_scale : {Rat(0, 1), Rat(1, 2), Rat(2, 1)},
                 width : 0..3, height : 0..3]
    /\ cfg0 = cfg
    /\ orig_size \in {Size(w, h) : w \in 1..MaxDim, h \in 1..MaxDim}
    /\ input_file = "dpi"
    /\ \/ cfg.pct_scale.num = 0 /\ cfg.width = 0 /\ cfg.height = 0
       \/ /\ pyimg_new_size(cfg, orig_size).width > 0
          /\ pyimg_new_size(cfg, orig_size).height > 0
    /\ argv = <<>>
    /\ ns_order = <<>>
    /\ verbose = FALSE
    /\ output_given = TRUE
    /\ out_file0 \in {"absent", "old"}
    /\ out_file = out_file0
    /\ force = FALSE
    /\ no_op \in BOOLEAN
    /\ InitNoWatermark

\* calculate_new_size on its own: scales whose hundredth is a binary
\* fraction, and widths and heights that are given or not
InitNewSize ==
    /\ api = "calculate_new_size"
    /\ cfg \in [pct_scale : {-50, 0, 25, 50, 150}, width : 0..3, height : 0..3]
    /\ cfg0 = cfg
    /\ orig_size \in {Size(w, h) : w \in 1..MaxDim, h \in 1..MaxDim}
    /\ input_file = "dpi"
    /\ argv = <<>>
    /\ ns_order = <<>>
    /\ verbose = FALSE
    /\ output_given = FALSE
    /\ out_file = "absent"
    /\ out_file0 = "absent"
    /\ force = FALSE
    /\ no_op = FALSE
    /\ InitNoWatermark

\* process_image called on its own, by either of its two definitions:
\* an input file that is not given, one that records no dpi and one that
\* does; an image of any size, and a scale, a width and a height that
\* leave no side at nothing; ctx.orig_size is empty before the image is
\* read
InitProcessImage ==
    /\ api \in {"image.process_image", "cli.process_image"}
    /\ input_file \in {"None", "no_dpi", "dpi"}
    /\ background \in {UniformImage(w, h, Black) : w \in 1..MaxDim, h \in 1..MaxDim}
    /\ cfg \in [pct_scale : {0, 50, 150}, width : 0..3, height : 0..3]
    /\ calculate_new_size(cfg, from_np(background)).width > 0
    /\ calculate_new_size(cfg, from_np(background)).height > 0
    /\ cfg0 = cfg
    /\ orig_size = Size(0, 0)
    /\ argv = <<>>
    /\ ns_order = <<>>
    /\ verbose = FALSE
    /\ output_given = FALSE
    /\ out_file = "absent"
    /\ out_file0 = "absent"
    /\ force = FALSE
    /\ no_op = FALSE
    /\ overlay = UniformImage(1, 1, White)
    /\ position = "None"
    /\ padding = Rat(0, 1)
    /\ alpha = Rat(1, 1)
    /\ invert = FALSE
    /\ text = <<>>
    /\ rendered = <<>>
    /\ copyright = FALSE
    /\ exif = [kind |-> "None", year |-> 0]
    /\ scale = Rat(1, 5)
    /\ font_found = TRUE
    /\ font_size = 1
    /\ text_fill = "None"
    /\ InitCommon

\* with_image called on its own: a watermark that is opaque or
\* transparent, as high as the scale allows or higher, pasted at full
\* opacity or at none; the scale is the default or one half
InitImage ==
    /\ api = "with_image"
    /\ background \in SpotImages(2 * BgSize.width, 2 * BgSize.height + 1)
    /\ overlay \in {UniformImage(sz.width, sz.height, OverlayPixel(White, a)) :
                       sz \in {Size(1, 1), Size(2, 1), Size(2, 2), Size(4, 2)},
                       a \in {0, 255}}
    /\ position \in {"None", "BOTTOM_RIGHT", "TOP_LEFT", "CENTER"}
    /\ padding = Rat(10, 1)
    /\ alpha \in {Rat(0, 1), Rat(1, 1)}
    /\ invert = FALSE
    /\ text = <<>>
    /\ rendered = <<>>
    /\ copyright = FALSE
    /\ exif = [kind |-> "None", year |-> 0]
    /\ scale \in {Rat(1, 5), Rat(1, 2)}
    /\ font_found = TRUE
    /\ font_size = 1
    /\ text_fill = "None"
    /\ InitCommon
    /\ InitNoCli

Init ==
    \/ InitMain
    \/ InitPyimg
    \/ InitNewSize
    \/ InitProcessImage
    \/ InitImage
    \/ InitPlacement
    \/ InitBlend
    \/ InitScenario
    \/ InitLocation
    \/ InitText
    \/ InitCopyright

Next ==
    \/ Place
    \/ SizeCheck
    \/ Blend
    \/ FindBestLocation
    \/ WT_Start
    \/ WT_Grow
    \/ WT_StepBack
    \/ WT_Fill
    \/ GetCopyrightString
    \/ WithImage
    \/ ParseArgs
    \/ SetLogLevel
    \/ PyimgMain
    \/ CalculateNewSize
    \/ ProcessImage
    \/ CliProcessImage

Spec == Init /\ [][Next]_vars

----------------------------------------------------------------------------
(* Claims about the numeric placement selector *)

InOverlay == api = "overlay_transparent"

\* the call has run the placement step
Placed == InOverlay /\ pc # "start"

AutoMode == InOverlay /\ position = "None"

SearchPositions == {"TOP_LEFT", "TOP_RIGHT", "BOTTOM_LEFT", "BOTTOM_RIGHT",
                    "BOTTOM_CENTER"}

\* the Box of position p on the background as it was on entry, and the
\* Stat of that Box on the grayscale copy
BoxOf(p) == calculate_for_overlay(p, from_np(bg0), from_np(overlay), padding)

StatOf(p) == get_region_stats_np(bg_gray, BoxOf(p))

\* C1: in auto mode the selector returns one of the five candidates other
\* than CENTER, with the Box and the Stat computed for that Position, and
\* no candidate has a strictly smaller standard deviation than it has.
C1_MinimumStddev ==
    (AutoMode /\ Placed) =>
        /\ pos \in SearchPositions
        /\ coords = BoxOf(pos)
        /\ stat = StatOf(pos)
        /\ ~IsNan(stat)
        /\ \A p \in SearchPositions : ~StddevLess(StatOf(p), stat)

\* the search passed over earlier candidates for a later, flatter one
C1_Witness ==
    /\ AutoMode
    /\ pc = "done"
    /\ pos = "BOTTOM_CENTER"
    /\ \A p \in SearchPositions \ {pos} : StddevLess(stat, StatOf(p))

\* p has a minimal standard deviation among the candidates
Minimal(p) ==
    /\ ~IsNan(StatOf(p))
    /\ \A q \in SearchPositions : ~StddevLess(StatOf(q), StatOf(p))

\* the first Position of order that is minimal
FirstMinimal(order) ==
    order[CHOOSE i \in 1..Len(order) :
             /\ Minimal(order[i])
             /\ \A j \in 1..(i - 1) : ~Minimal(order[j])]

Oversized == Width(overlay) > Width(bg0) \/ Height(overlay) > Height(bg0)

\* C3: whatever the position argument, an overlay wider or higher than the
\* background ends the call with OverlaySizeError, before any write.
C3_OversizeRaises ==
    (InOverlay /\ Oversized /\ pc \notin {"start", "placed"}) =>
        /\ pc = "raised"
        /\ err = "OverlaySizeError"
        /\ background = bg0

\* a forced position with an overlay that is only too high
C3_Witness ==
    /\ InOverlay
    /\ position = "CENTER"
    /\ Height(overlay) > Height(bg0)
    /\ Width(overlay) <= Width(bg0)
    /\ err = "OverlaySizeError"

----------------------------------------------------------------------------
(* Claims about the compositor *)

\* the pixels of the background the blend wrote
Written ==
    SliceIdx(coords.x0, coords.x1, Width(bg0))
        \X SliceIdx(coords.y0, coords.y1, Height(bg0))

\* the point of the overlay that meets background point pt
OverlayPoint(pt) ==
    <<pt[1] - SliceBound(coords.x0, Width(bg0)),
      pt[2] - SliceBound(coords.y0, Height(bg0))>>

\* C4: the colours that enter the blend are the overlay's colours inverted
\* bitwise exactly when one of the automatic decision and the invert
\* argument holds and the other does not, and the overlay's own colours
\* when both hold or neither does; these are the colours blended in.
C4_InvertXor ==
    (InOverlay /\ pc = "done") =>
        /\ \A pt \in Points(overlay) : \A c \in 1..3 :
              Pixel(overlay_image, pt)[c] =
                 IF invert_overlay # invert THEN 255 - Pixel(overlay, pt)[c]
                 ELSE Pixel(overlay, pt)[c]
        /\ \A pt \in Written : \A c \in 1..3 :
              LET oc == Pixel(overlay, OverlayPoint(pt))[c]
                  used == IF invert_overlay # invert THEN 255 - oc ELSE oc
              IN Pixel(background, pt)[c] =
                    BlendChannel(Pixel(bg0, pt)[c], oc, used, alpha)

\* automatic inversion and the invert argument together, on an overlay
\* whose blend shows its colour
C4_Witness ==
    /\ InOverlay
    /\ pc = "done"
    /\ invert_overlay
    /\ invert
    /\ alpha.num > 0
    /\ Written # {}
    /\ \E pt \in Written : Pixel(background, pt) # Pixel(bg0, pt)

\* C5 as stated: the overlay is inverted automatically exactly when the
\* mean luminance of the target rectangle, divided by 255, exceeds 0.5.
C5_InvertAbove255Half ==
    (InOverlay /\ pc = "done") =>
        (invert_overlay <=> (~IsNan(stat) /\ 2 * stat.sum > 255 * stat.n))

\* one channel of the blend as C6 states it: the mask is the overlay
\* channel divided by 255, times the opacity
C6_Channel(bg, oc, used, a) ==
    Trunc((255 * a.den - oc * a.num) * bg + oc * a.num * used, 255 * a.den)

\* C6 as stated: every channel of every pixel of the target rectangle is
\* (1 - mask) * background + mask * overlay colour, with
\* mask = overlay channel / 255 * opacity.
C6_BlendOver255 ==
    (InOverlay /\ pc = "done") =>
        \A pt \in Written : \A c \in 1..3 :
            Pixel(background, pt)[c] =
                C6_Channel(Pixel(bg0, pt)[c],
                           Pixel(overlay, OverlayPoint(pt))[c],
                           Pixel(overlay_image, OverlayPoint(pt))[c], alpha)

\* the overlay ov with its alpha channel, if it has one, set to a, or
\* taken away when a is negative
AlphaSetTo(ov, a) ==
    Image(ov.width, ov.height, OverlayPixel(Rgb(ov.fill), a), DOMAIN ov.dots,
          [pt \in DOMAIN ov.dots |-> OverlayPixel(Rgb(ov.dots[pt]), a)])

\* the call has come to its end, by return or by exception
Ended == InOverlay /\ pc \in {"done", "raised"}

\* C11: the outcome of the call, the exception raised and the background
\* array afterwards, is the outcome of the same call on the same overlay
\* without an alpha channel, and with any other alpha channel.
C11_AlphaChannelIgnored ==
    Ended =>
        \A a \in OverlayAlphas :
            overlay_transparent(bg0, AlphaSetTo(overlay, a), position,
                                padding, alpha, invert)
                = [err |-> err, background |-> background]

\* a transparent overlay has been blended in visibly
C11_Witness ==
    /\ InOverlay
    /\ pc = "done"
    /\ Len(overlay.fill) = 4
    /\ overlay.fill[4] = 0
    /\ alpha.num > 0
    /\ background # bg0

\* the pixels of an image, as a set
PixelValues(im) == {im.fill} \cup {im.dots[pt] : pt \in DOMAIN im.dots}

\* C12: the call returns the background array it was given, written in
\* place, and that array has the height, the width, the three channels
\* and the 8-bit elements it had on entry.
C12_SameBuffer ==
    (InOverlay /\ pc = "done") =>
        /\ ret = "background"
        /\ Height(background) = Height(bg0)
        /\ Width(background) = Width(bg0)
        /\ \A px \in PixelValues(background) :
              /\ Len(px) = 3
              /\ \A c \in 1..3 : px[c] \in 0..255

\* the array returned differs from the array on entry
C12_Witness ==
    /\ InOverlay
    /\ pc = "done"
    /\ ret = "background"
    /\ background # bg0
    /\ from_np(overlay) # from_np(bg0)

----------------------------------------------------------------------------
(* Claims about placement, end to end *)

\* the end-to-end scenario: an 800x600 background of value 128, a 100x50
\* overlay, padding 0.05 and no position given
Scenario ==
    /\ AutoMode
    /\ bg0 = UniformImage(800, 600, Gray(128))
    /\ from_np(overlay) = Size(100, 50)
    /\ padding = Rat(1, 20)

\* C7: in the end-to-end scenario the selected Position is TOP_LEFT and
\* the selected rectangle is (40, 30, 140, 80).
C7_ScenarioTopLeft ==
    (Placed /\ Scenario) =>
        /\ pos = "TOP_LEFT"
        /\ coords = Box(40, 30, 140, 80)

\* the scenario has run to its end, every candidate region being flat
C7_Witness ==
    /\ Scenario
    /\ pc = "done"
    /\ \A p \in SearchPositions : StatOf(p).nnvar = 0 /\ StatOf(p).n = 5000

\* the Box lies on the background
Inside(box) ==
    /\ 0 <= box.x0 /\ box.x0 < box.x1 /\ box.x1 <= Width(bg0)
    /\ 0 <= box.y0 /\ box.y0 < box.y1 /\ box.y1 <= Height(bg0)

\* C8: with a position given no search is run: the rectangle is that of
\* the given Position, and the statistics are those of the grayscale
\* background over that rectangle, whatever the other regions hold.
C8_ForcedPosition ==
    (Placed /\ position # "None") =>
        /\ pos = "None"
        /\ coords = calculate_for_overlay(position, from_np(bg0),
                                          from_np(overlay), padding)
        /\ bg_gray = GrayImage(bg0)
        /\ Inside(coords) =>
              stat = StatOver(bg_gray, coords.y0..(coords.y1 - 1),
                                       coords.x0..(coords.x1 - 1))

\* a position is given whose region is not flat while the search would
\* have found a flat one
C8_Witness ==
    /\ InOverlay
    /\ pc = "done"
    /\ position = "BOTTOM_RIGHT"
    /\ stat.nnvar > 0
    /\ StatOf("TOP_LEFT").nnvar = 0
    /\ ~IsNan(StatOf("TOP_LEFT"))

----------------------------------------------------------------------------
(* Claims about the region statistics *)

\* the sum of the k-th powers of the pixels of im at the points pts
RECURSIVE PowerSum(_, _, _)
PowerSum(pts, im, k) ==
    IF pts = {} THEN 0
    ELSE LET pt == CHOOSE q \in pts : TRUE
             v == Pixel(im, pt)
         IN (IF k = 1 THEN v ELSE v * v) + PowerSum(pts \ {pt}, im, k)

\* the points with x0 <= x < x1 and y0 <= y < y1
BoxPoints(box) == (box.x0..(box.x1 - 1)) \X (box.y0..(box.y1 - 1))

\* count, sum and n^2 times the population variance of the pixels of the
\* box: n^2 * (sum of squares / n - (sum / n)^2)
DirectStat(im, box) ==
    LET n == Cardinality(BoxPoints(box))
        s1 == PowerSum(BoxPoints(box), im, 1)
        s2 == PowerSum(BoxPoints(box), im, 2)
    IN [n |-> n, sum |-> s1, nnvar |-> n * s2 - s1 * s1]

\* the boxes inside the top left 4x2 corner of the image
CornerBoxes(im) ==
    LET w == IF Width(im) < 4 THEN Width(im) ELSE 4
        h == IF Height(im) < 2 THEN Height(im) ELSE 2
    IN {Box(c[1], c[2], c[3], c[4]) :
          c \in {d \in (0..w) \X (0..h) \X (0..w) \X (0..h) :
                    d[1] < d[3] /\ d[2] < d[4]}}

\* C14: for a rectangle inside the image get_region_stats_np returns the
\* arithmetic mean and the population standard deviation of the pixels
\* with x0 <= x < x1 and y0 <= y < y1, and of those only; over a region of
\* one intensity the stddev is 0 and the mean that intensity.
C14_MeanAndPopulationStddev ==
    (InOverlay /\ pc = "placed") =>
        \A box \in CornerBoxes(bg_gray) :
            LET st == get_region_stats_np(bg_gray, box)
                v == Pixel(bg_gray, <<box.x0, box.y0>>)
            IN /\ st = DirectStat(bg_gray, box)
               /\ (\A pt \in BoxPoints(box) : Pixel(bg_gray, pt) = v) =>
                     (st.nnvar = 0 /\ st.sum = v * st.n)

\* the statistics were taken of a rectangle inside the image that holds
\* bright and dark pixels
C14_Witness ==
    /\ InOverlay
    /\ pc = "placed"
    /\ position # "None"
    /\ Inside(coords)
    /\ stat.n = 4
    /\ stat.nnvar > 0
    /\ stat = DirectStat(bg_gray, coords)

\* the statistics of the part of the box that lies on the image
ClippedStat(im, box) ==
    StatOver(im, {y \in 0..(Height(im) - 1) : box.y0 <= y /\ y < box.y1},
                 {x \in 0..(Width(im) - 1) : box.x0 <= x /\ x < box.x1})

\* the Positions whose statistics the call takes
StatCalls == IF position = "None" THEN SearchPositions ELSE {position}

\* C15 as stated: every call of get_region_stats_np that overlay_transparent
\* makes returns the statistics of its rectangle clipped to the image, also
\* when a coordinate is negative or lies past the edge of the image.
C15_ClippedToImage ==
    Placed =>
        \A p \in StatCalls :
            get_region_stats_np(bg_gray, BoxOf(p)) = ClippedStat(bg_gray, BoxOf(p))

\* C9 as stated: when the call comes to the blend without having raised,
\* the rectangle lies on the background.
C9_RectangleInside ==
    (InOverlay /\ pc \in {"checked", "done"}) => Inside(coords)

\* pad * dim rounded to an integer: both neighbours of an inexact product
\* are taken as rounded values
Rounded(pad, dim) ==
    {(pad.num * dim) \div pad.den, (pad.num * dim + pad.den - 1) \div pad.den}

\* the Box has the overlay's size and keeps the rounded padding to each
\* edge Position p is anchored to
Anchored(p, box, im_size, size, pad) ==
    /\ box.x1 - box.x0 = size.width
    /\ box.y1 - box.y0 = size.height
    /\ p \in {"TOP_LEFT", "BOTTOM_LEFT"} =>
          box.x0 \in Rounded(pad, im_size.width)
    /\ p \in {"TOP_RIGHT", "BOTTOM_RIGHT"} =>
          (im_size.width - box.x1) \in Rounded(pad, im_size.width)
    /\ p \in {"TOP_LEFT", "TOP_RIGHT"} =>
          box.y0 \in Rounded(pad, im_size.height)
    /\ p \in {"BOTTOM_LEFT", "BOTTOM_RIGHT", "BOTTOM_CENTER"} =>
          (im_size.height - box.y1) \in Rounded(pad, im_size.height)

\* the candidate rectangles of find_best_position
NumericRectangles ==
    (AutoMode /\ Placed) =>
        \A p \in SearchPositions :
            Anchored(p, BoxOf(p), from_np(bg0), from_np(overlay), padding)

\* the candidate rectangles of find_best_location
LocationRectangles ==
    (api = "find_best_location" /\ pc # "start") =>
        \A i \in 1..Len(cands) :
            Anchored(Locations[i], cands[i], from_np(bg0), from_np(overlay),
                     padding)

\* C10 as stated: each candidate rectangle of the two selectors has the
\* overlay's width and height, and lies at the rounded padding, taken of
\* the background's width for the left and right edges and of its height
\* for the top and bottom edges, from each edge it is anchored to.
C10_CandidateRectangles == NumericRectangles /\ LocationRectangles

----------------------------------------------------------------------------
(* Claims about the text watermark *)

InText == api = "with_text"

\* the font-size search has come to its end: the size is settled, or the
\* font of size 0 could not be made
SearchEnded == InText /\ (pc = "sized" \/ (pc = "raised" /\ font_size = 0))

\* C16 as stated: the font-size search ends with a font whose text is no
\* wider than scale * image width, while the text of the next size is no
\* narrower than it.
C16_WithinOneIncrement ==
    SearchEnded =>
        /\ pc = "sized"
        /\ ~Wider(rendered, font_size, scale, background)
        /\ ~Narrower(rendered, font_size + 1, scale, background)

\* C17 as stated: the loop that grows the font comes to its end: from
\* every turn of the loop on, some size makes the text as wide as
\* scale * image width.
C17_LoopEnds ==
    (InText /\ pc = "sizing") =>
        \E size \in font_size..MaxFontSize :
            ~Narrower(rendered, size, scale, background)

\* C18 as stated: the fill is dark exactly when the mean luminance of the
\* text region is at least half of 255, and light otherwise.
C18_DarkFromHalfOf255 ==
    (InText /\ pc = "done" /\ ret = "out") =>
        text_fill = IF 2 * stat.sum >= 255 * stat.n THEN <<0, 0, 0>>
                                                    ELSE <<255, 255, 255>>

\* C19 as stated: without the font file with_text raises nothing and
\* returns the image it was given, with nothing drawn on it.
C19_FontMissingReturnsImage ==
    (InText /\ ~font_found /\ pc # "start") =>
        /\ pc = "done"
        /\ err = "None"
        /\ ret = "im"
        /\ background = bg0
        /\ text_fill = "None"

\* r is t after a copyright sign, a space, four digits and a space
HasCopyrightPrefix(r, t) ==
    /\ Len(r) = Len(t) + 7
    /\ r[1] = "(c)"
    /\ r[2] = " "
    /\ \A i \in 3..6 : \E d \in 1..10 : r[i] = DigitChars[d]
    /\ r[7] = " "
    /\ SubSeq(r, 8, Len(r)) = t

\* C20 as stated: with the copyright flag set the text drawn is the given
\* text after a copyright sign and a year of four digits, whatever exif
\* is, None included.
C20_CopyrightPrefix ==
    (InText /\ copyright /\ pc = "done" /\ ret = "out") =>
        HasCopyrightPrefix(rendered, text)

\* C21 as stated: get_copyright_string returns the copyright sign with the
\* year of the capture date when exif holds one, and with the year of today
\* otherwise, without raising, whether exif is None, lacks the date or
\* holds it.
C21_YearOrFallback ==
    (/\ api = "get_copyright_string"
     /\ pc # "start"
     /\ exif.kind \in {"None", "NoDate", "Date"}) =>
        /\ pc = "done"
        /\ err = "None"
        /\ rendered = <<"(c)", " ">> \o
               Digits(IF exif.kind = "Date" THEN exif.year ELSE NowYear)

----------------------------------------------------------------------------
(* Claims about the image watermark *)

\* C22 as stated: with no position configured the watermark is put where
\* the selectors say: with_image pastes it at the rectangle of the location
\* find_best_location returns, and overlay_transparent blends it into the
\* rectangle find_best_position returns.
C22_AutoSelectedPosition ==
    /\ (api = "with_image" /\ pc = "done" /\ position = "BOTTOM_RIGHT") =>
          coords = calculate_for_overlay(loc, from_np(bg0),
                                         from_np(watermark_image),
                                         DefaultPadding)
    /\ (AutoMode /\ Placed) =>
          coords = find_best_position(bg_gray, from_np(overlay), padding).box

----------------------------------------------------------------------------
(* Claims about the command line and the new size *)

\* whether the elements of a come in b in the same order, from i and j on
RECURSIVE IsSubsequence(_, _, _, _)
IsSubsequence(a, b, i, j) ==
    IF i > Len(a) THEN TRUE
    ELSE IF j > Len(b) THEN FALSE
    ELSE IF a[i] = b[j] THEN IsSubsequence(a, b, i + 1, j + 1)
    ELSE IsSubsequence(a, b, i, j + 1)

\* C23 as stated: after parse_args, _order holds exactly the commands of
\* the command line, each once, in the order they were given, whether
\* there are none or one of them is repeated.
C23_OrderAsGiven ==
    (api = "main" /\ pc \in {"parsed", "raised"}) =>
        /\ Range(ns_order) = Range(argv)
        /\ Cardinality(Range(ns_order)) = Len(ns_order)
        /\ IsSubsequence(ns_order, argv, 1, 1)

\* n within half a unit of num / den, for den > 0
Nearest(n, num, den) ==
    /\ 2 * (n * den - num) <= den
    /\ 2 * (num - n * den) <= den

\* C24: calculate_new_size with a scale other than zero leaves the original
\* width and height times pct_scale / 100, to the nearest integer,
\* whatever width and height were given; with no scale and both given it
\* leaves cfg as it was; with no scale and one of them given it leaves
\* that one and the other in the proportion of the original, to the
\* nearest integer.
C24_ScaleTakesPrecedence ==
    (api = "calculate_new_size" /\ pc = "done") =>
        /\ cfg.pct_scale = cfg0.pct_scale
        /\ cfg0.pct_scale # 0 =>
              /\ Nearest(cfg.width, orig_size.width * cfg0.pct_scale, 100)
              /\ Nearest(cfg.height, orig_size.height * cfg0.pct_scale, 100)
        /\ (cfg0.pct_scale = 0 /\ cfg0.width # 0 /\ cfg0.height # 0) =>
              cfg = cfg0
        /\ (cfg0.pct_scale = 0 /\ cfg0.width # 0 /\ cfg0.height = 0) =>
              /\ cfg.width = cfg0.width
              /\ Nearest(cfg.height, cfg0.width * orig_size.height, orig_size.width)
        /\ (cfg0.pct_scale = 0 /\ cfg0.width = 0 /\ cfg0.height # 0) =>
              /\ cfg.height = cfg0.height
              /\ Nearest(cfg.width, cfg0.height * orig_size.width, orig_size.height)

\* a scale of 50 percent was applied to an image 5 wide although a width
\* and a height were given
C24_Witness ==
    /\ api = "calculate_new_size"
    /\ pc = "done"
    /\ cfg0.pct_scale = 50
    /\ cfg0.width = 3
    /\ cfg0.height = 1
    /\ orig_size = Size(5, 3)
    /\ cfg.width = 2
    /\ cfg.height = 2

\* C30 as stated: over the whole run, an output file that existed before
\* the program started keeps its contents unless --force is given, and
\* when a run that opens an image and saves it to an output path that did
\* not exist has ended, the processed image is in it.
C30_SaveKeepsExisting ==
    api = "main" =>
        /\ (out_file0 = "old" /\ ~force) => out_file = "old"
        /\ (/\ out_file0 = "absent"
            /\ pc \notin {"start", "parsed"}
            /\ argv = <<"open", "save">>
            /\ output_given) => out_file = "image"

----------------------------------------------------------------------------
(* Further claims about the compositor *)

\* the pixels of the background that differ from what they were on entry
Changed ==
    {pt \in DOMAIN background.dots \cup DOMAIN bg0.dots :
        Pixel(background, pt) # Pixel(bg0, pt)}

\* C25: at every point of the call, a pixel of the background with x
\* outside [x0, x1) or y outside [y0, y1) of the selected rectangle has the
\* value it had on entry.
C25_OnlyInsideRectangle ==
    InOverlay =>
        /\ background.fill = bg0.fill
        /\ \A pt \in Changed :
              /\ coords.x0 <= pt[1] /\ pt[1] < coords.x1
              /\ coords.y0 <= pt[2] /\ pt[2] < coords.y1

\* a blend has changed pixels of a background that has a bright pixel
\* outside the rectangle
C25_Witness ==
    /\ InOverlay
    /\ pc = "done"
    /\ Changed # {}
    /\ \E pt \in DOMAIN bg0.dots :
          /\ ~(coords.x0 <= pt[1] /\ pt[1] < coords.x1
               /\ coords.y0 <= pt[2] /\ pt[2] < coords.y1)
          /\ Pixel(background, pt) = bg0.dots[pt]

\* C26: a call that raises OverlaySizeError leaves the background as it
\* was on entry and returns nothing, and the background differs from what
\* it was on entry only once the call has passed the size check and
\* returned.
C26_ErrorLeavesBackground ==
    InOverlay =>
        /\ err = "OverlaySizeError" => (background = bg0 /\ ret = "None")
        /\ background # bg0 => (pc = "done" /\ err = "None")

\* OverlaySizeError in the automatic search, for a white overlay that a
\* blend would have shown on a background with a black pixel
C26_Witness ==
    /\ AutoMode
    /\ err = "OverlaySizeError"
    /\ alpha.num > 0
    /\ Rgb(overlay.fill) = White
    /\ bg0.fill = Black
    /\ background = bg0

\* C27: the weight of the blend comes from the overlay's colours as they
\* are before any inversion: where a channel of the overlay is 0 the
\* background keeps its value in that channel, so a black overlay pixel
\* leaves the background pixel as it was, inverted or not.
C27_MaskBeforeInversion ==
    (InOverlay /\ pc = "done") =>
        \A pt \in Written : \A c \in 1..3 :
            Pixel(overlay, OverlayPoint(pt))[c] = 0 =>
                Pixel(background, pt)[c] = Pixel(bg0, pt)[c]

\* a black overlay has been inverted to white and blended, at some
\* opacity, over a pixel that is not white
C27_Witness ==
    /\ InOverlay
    /\ pc = "done"
    /\ invert_overlay # invert
    /\ alpha.num > 0
    /\ \E pt \in Written :
          /\ Rgb(Pixel(overlay, OverlayPoint(pt))) = Black
          /\ Pixel(overlay_image, OverlayPoint(pt)) = White
          /\ Pixel(bg0, pt) # White
          /\ Pixel(background, pt) = Pixel(bg0, pt)

----------------------------------------------------------------------------
(* Further claims about the text watermark *)

\* C28 as stated: the font size with_text asks the font for when the
\* search has ended, and renders with, is at least 1, whatever the text
\* and the target width.
C28_FontSizeAtLeastOne ==
    (InText /\ pc \notin {"start", "sizing"}) => font_size >= 1

----------------------------------------------------------------------------
(* The two selectors together *)

\* C29 as stated: on the same luminance image, overlay size and padding,
\* find_best_location looks at the rectangles find_best_position looks at
\* and returns the position find_best_position returns, ties included.
C29_SelectorsAgree ==
    (api = "find_best_location" /\ pc = "done") =>
        LET positions == Candidates(LImage(background), from_np(overlay), padding)
        IN /\ Range(cands) = {positions[i].box : i \in 1..Len(positions)}
           /\ loc = find_best_position(LImage(background), from_np(overlay),
                                       padding).p

====
